---- MODULE Spec2Model ----
(***************************************************************************)
(* Numerics (lenstronomy/ImSim/Numerics/numerics.py): the orchestrator     *)
(* that wires one coordinate grid and one convolution at construction and  *)
(* renders flux arrays through them.  Images are functions from pixel     *)
(* pairs <<i, j>> (i in 1..nx, j in 1..ny) to integers; a flux array is a  *)
(* sequence of integers.                                                   *)
(***************************************************************************)
EXTENDS Integers, Sequences, FiniteSets, TLC

VARIABLES
    phase,   \* "new", then "built" or "failed" (the constructor raised)
    args,    \* the arguments the constructor was called with
    self,    \* the attributes of the Numerics object
    built,   \* the attributes as the constructor left them
    ret,     \* the last call: its arguments and what it returned or raised
    calls,   \* the re_size_convolve calls in progress: position and local variables
    um,      \* the UpdateManager: its attributes
    umret,   \* the last UpdateManager call: arguments, state before, outcome
    supplied \* the keyword arguments the UpdateManager was constructed with

vars == <<phase, args, self, built, ret, calls, um, umret, supplied>>

(* ------------------------------ bounds -------------------------------- *)
\* pixel grid of Nx x Ny pixels
Nx == 2
Ny == 1
\* supersampling_factor ranges over 1..MaxSupersampling
MaxSupersampling == 2

(* --------------------------- program constants ------------------------ *)
DefaultSupersamplingKernelSize == 5
GaussianTruncation == 4

(* ------------------------------ helpers ------------------------------- *)
\* the sum of f over the first k entries of the sequence seq
RECURSIVE SumFn(_, _, _)
SumFn(f, seq, k) == IF k = 0 THEN 0 ELSE f[seq[k]] + SumFn(f, seq, k - 1)

Abs(x) == IF x < 0 THEN -x ELSE x

Pixels(nx, ny) == (1..nx) \X (1..ny)

\* the pixels of an a x b array in the order of a row-major flattening
PixelSeq(a, b) == [k \in 1..(a * b) |-> <<((k - 1) \div b) + 1, ((k - 1) % b) + 1>>]

\* the s x s sub-pixels of pixel p on the grid refined by s, row by row
SubPixels(p, s) ==
    [k \in 1..(s * s) |->
        <<(p[1] - 1) * s + ((k - 1) \div s) + 1, (p[2] - 1) * s + ((k - 1) % s) + 1>>]

\* the native pixel a cell of the refined grid lies in
ParentPixel(P, s) == <<((P[1] - 1) \div s) + 1, ((P[2] - 1) \div s) + 1>>

IndexOf(seq, x) == CHOOSE k \in 1..Len(seq) : seq[k] = x

NoImage == [p \in {} |-> 0]

(* ------------------------------- masks -------------------------------- *)
\* a boolean 2d array: its shape and the set of pixels marked True; None
NoneMask == [none |-> TRUE, shape |-> <<0, 0>>, on |-> {}]
Mask(a, b, on) == [none |-> FALSE, shape |-> <<a, b>>, on |-> on]
ShapeOk(m, nx, ny) == m.shape = <<nx, ny>>

(* ------------------------- coordinate grids --------------------------- *)
\* RegularGrid / AdaptiveGrid, lenstronomy/ImSim/Numerics/grid.py: modelled
\* from the specification, sections 3, 4.1 and 7.
\* A coordinate is <<I, J, s>>: cell (I, J) of the pixel grid refined by s.
NoGrid == [kind |-> "None"]

\* RegularGrid(nx, ny, ..., supersampling_factor, flux_evaluate_indexes)
RegularGrid(nx, ny, supersampling_factor, flux_evaluate_indexes) ==
    IF ~flux_evaluate_indexes.none /\ ~ShapeOk(flux_evaluate_indexes, nx, ny)
    THEN [error |-> "InvalidConfiguration: mask shape", grid |-> NoGrid]
    ELSE [error |-> "none",
          grid |-> [kind |-> "Regular", nx |-> nx, ny |-> ny,
                    supersampling_factor |-> supersampling_factor,
                    flux_evaluate |-> IF flux_evaluate_indexes.none
                                      THEN Pixels(nx, ny)
                                      ELSE flux_evaluate_indexes.on,
                    supersampled |-> {}]]

\* AdaptiveGrid(nx, ny, ..., supersampled_indexes, supersampling_factor,
\*              flux_evaluate_indexes)
AdaptiveGrid(nx, ny, supersampled_indexes, supersampling_factor, flux_evaluate_indexes) ==
    IF \/ ~flux_evaluate_indexes.none /\ ~ShapeOk(flux_evaluate_indexes, nx, ny)
       \/ ~ShapeOk(supersampled_indexes, nx, ny)
    THEN [error |-> "InvalidConfiguration: mask shape", grid |-> NoGrid]
    ELSE [error |-> "none",
          grid |-> [kind |-> "Adaptive", nx |-> nx, ny |-> ny,
                    supersampling_factor |-> supersampling_factor,
                    flux_evaluate |-> IF flux_evaluate_indexes.none
                                      THEN Pixels(nx, ny)
                                      ELSE flux_evaluate_indexes.on,
                    supersampled |-> supersampled_indexes.on]]

\* the sub-coordinates of the pixels of pixseq, pixel after pixel
RECURSIVE SubCoordinates(_, _)
SubCoordinates(pixseq, s) ==
    IF pixseq = <<>> THEN <<>>
    ELSE LET sub == SubPixels(Head(pixseq), s)
         IN [k \in 1..Len(sub) |-> <<sub[k][1], sub[k][2], s>>]
            \o SubCoordinates(Tail(pixseq), s)

\* Adaptive: the evaluated pixels that are not supersampled, one coordinate each
LowResCoordinates(grid) ==
    LET IsLow(p) == p \in grid.flux_evaluate /\ p \notin grid.supersampled
        low == SelectSeq(PixelSeq(grid.nx, grid.ny), IsLow)
    IN [k \in 1..Len(low) |-> <<low[k][1], low[k][2], 1>>]

\* Adaptive: the sub-coordinates of the supersampled pixels
HighResCoordinates(grid) ==
    LET IsHigh(p) == p \in grid.supersampled
    IN SubCoordinates(SelectSeq(PixelSeq(grid.nx, grid.ny), IsHigh),
                      grid.supersampling_factor)

\* grid.coordinates_evaluate: Regular samples every cell of the refined grid;
\* Adaptive lists the low-resolution coordinates, then the high-resolution ones
GridCoordinates(grid) ==
    LET s == grid.supersampling_factor
        fine == PixelSeq(grid.nx * s, grid.ny * s)
    IN IF grid.kind = "Regular"
       THEN [k \in 1..Len(fine) |-> <<fine[k][1], fine[k][2], s>>]
       ELSE LowResCoordinates(grid) \o HighResCoordinates(grid)

\* the mean of the s x s cells of the refined image in each native pixel
BlockMean(high, nx, ny, s) ==
    [p \in Pixels(nx, ny) |->
        SumFn(high, SubPixels(p, s), s * s) \div (s * s)]

\* grid.flux_array2image_low_high(flux_array)
FluxArray2ImageLowHigh(grid, flux_array) ==
    LET s == grid.supersampling_factor
        nx == grid.nx
        ny == grid.ny
        coords == GridCoordinates(grid)
        highReg == [P \in Pixels(nx * s, ny * s) |->
                      IF ParentPixel(P, s) \in grid.flux_evaluate
                      THEN flux_array[(P[1] - 1) * ny * s + P[2]] ELSE 0]
        lowc == LowResCoordinates(grid)
        highc == HighResCoordinates(grid)
        highAda == [P \in Pixels(nx * s, ny * s) |->
                      IF ParentPixel(P, s) \in grid.supersampled
                      THEN flux_array[Len(lowc) + IndexOf(highc, <<P[1], P[2], s>>)]
                      ELSE 0]
        lowAda == [p \in Pixels(nx, ny) |->
                      IF p \in grid.supersampled
                      THEN BlockMean(highAda, nx, ny, s)[p]
                      ELSE IF p \in grid.flux_evaluate
                           THEN flux_array[IndexOf(lowc, <<p[1], p[2], 1>>)]
                           ELSE 0]
    IN IF Len(flux_array) # Len(coords)
       THEN [error |-> "ShapeMismatch", low |-> NoImage, high |-> NoImage]
       ELSE IF grid.kind = "Regular"
            THEN [error |-> "none", low |-> BlockMean(highReg, nx, ny, s),
                  high |-> highReg]
            ELSE [error |-> "none", low |-> lowAda, high |-> highAda]

(* ------------------------------ kernels ------------------------------- *)
\* A kernel is separable: a profile w over the offsets -r..r along each axis,
\* the weight at offset (dx, dy) being w[dx] * w[dy].  The profiles are a
\* fixed bell of integers (not normalised), r cells wide.
Bell(r) == [r |-> r, w |-> [d \in (-r)..r |-> r + 1 - Abs(d)]]

KernelWeight(kernel, dx, dy) ==
    IF Abs(dx) <= kernel.r /\ Abs(dy) <= kernel.r
    THEN kernel.w[dx] * kernel.w[dy] ELSE 0

\* zero-padded (non-circular) convolution of an a x b image with a kernel
Convolve(image, a, b, kernel) ==
    [p \in Pixels(a, b) |->
        SumFn([q \in Pixels(a, b) |->
                  image[q] * KernelWeight(kernel, p[1] - q[1], p[2] - q[2])],
              PixelSeq(a, b), a * b)]

\* psf.kernel_point_source_supersampled(supersampling_factor)
KernelPointSourceSupersampled(psf, supersampling_factor) ==
    Bell(psf.kernel_point_source.r * supersampling_factor)

\* util.fwhm2sigma: sigma = fwhm / (2 sqrt(2 ln 2)) = fwhm / 2.355, in thousandths
Fwhm2Sigma(fwhm) == (fwhm * 1000000) \div 2355

(* ---------------------------- convolutions ---------------------------- *)
\* lenstronomy/ImSim/Numerics/convolution.py and adaptive_numerics.py:
\* modelled from the specification, section 4.2.
NoConv == [kind |-> "None"]

PixelKernelConvolution(kernel, convolution_type) ==
    [kind |-> "PixelKernel", kernel |-> kernel, convolution_type |-> convolution_type]

SubgridKernelConvolution(kernel_supersampled, supersampling_factor, supersampling_kernel_size, convolution_type) ==
    [kind |-> "Subgrid", kernel |-> kernel_supersampled,
     supersampling_factor |-> supersampling_factor,
     supersampling_kernel_size |-> supersampling_kernel_size,
     convolution_type |-> convolution_type]

MultiGaussianConvolution(sigma_list, fraction_list, pixel_scale, supersampling_factor, supersampling_convolution, truncation) ==
    [kind |-> "MultiGaussian", sigma_list |-> sigma_list,
     fraction_list |-> fraction_list, pixel_scale |-> pixel_scale,
     supersampling_factor |-> supersampling_factor,
     supersampling_convolution |-> supersampling_convolution,
     truncation |-> truncation]

\* AdaptiveConvolution validates the masks it is handed (specification, 7 and 9)
AdaptiveConvolution(kernel_super, supersampling_factor, conv_supersample_pixels, supersampling_kernel_size, compute_pixels, nx, ny) ==
    IF \/ ~ShapeOk(conv_supersample_pixels, nx, ny)
       \/ ~compute_pixels.none /\ ~ShapeOk(compute_pixels, nx, ny)
    THEN [error |-> "InvalidConfiguration: mask shape", conv |-> NoConv]
    ELSE [error |-> "none",
          conv |-> [kind |-> "Adaptive", kernel |-> kernel_super,
                    supersampling_factor |-> supersampling_factor,
                    conv_supersample_pixels |-> conv_supersample_pixels.on,
                    supersampling_kernel_size |-> supersampling_kernel_size,
                    compute_pixels |-> IF compute_pixels.none THEN Pixels(nx, ny)
                                       ELSE compute_pixels.on]]

\* the kernel a Gaussian of the given sigma (thousandths of an angle unit) is
\* cut to: truncation * sigma wide, in cells of pixel_scale / res
GaussianKernel(conv, res) ==
    Bell((conv.truncation * conv.sigma_list[1] * res) \div (1000 * conv.pixel_scale))

\* conv.re_size_convolve(image_low_res, image_high_res_partial) on an nx x ny grid
ConvReSizeConvolve(conv, image_low_res, image_high_res_partial, nx, ny) ==
    CASE conv.kind = "PixelKernel" ->
           [error |-> "none", image |-> Convolve(image_low_res, nx, ny, conv.kernel)]
      [] conv.kind = "Subgrid" ->
           LET s == conv.supersampling_factor
           IN [error |-> "none",
               image |-> BlockMean(Convolve(image_high_res_partial, nx * s, ny * s,
                                            conv.kernel), nx, ny, s)]
      [] conv.kind = "MultiGaussian" ->
           LET s == conv.supersampling_factor
           IN IF conv.supersampling_convolution
              THEN [error |-> "none",
                    image |-> BlockMean(Convolve(image_high_res_partial, nx * s, ny * s,
                                                 GaussianKernel(conv, s)), nx, ny, s)]
              ELSE [error |-> "none",
                    image |-> Convolve(image_low_res, nx, ny, GaussianKernel(conv, 1))]
      [] conv.kind = "Adaptive" ->
           LET s == conv.supersampling_factor
               composite == [P \in Pixels(nx * s, ny * s) |->
                               IF ParentPixel(P, s) \in conv.conv_supersample_pixels
                               THEN image_high_res_partial[P]
                               ELSE image_low_res[ParentPixel(P, s)]]
               blurred == BlockMean(Convolve(composite, nx * s, ny * s, conv.kernel),
                                    nx, ny, s)
           IN [error |-> "none",
               image |-> [p \in Pixels(nx, ny) |->
                            IF p \in conv.compute_pixels THEN blurred[p] ELSE 0]]
      [] OTHER -> [error |-> "AttributeError", image |-> NoImage]

(* ------------------------- Numerics.__init__ -------------------------- *)
\* psf.psf_type is one of NONE, GAUSSIAN, PIXEL; any other string is invalid
PsfTypes == {"NONE", "GAUSSIAN", "PIXEL", "MOFFAT"}
PSFs == {[psf_type |-> t, fwhm |-> 2, kernel_point_source |-> Bell(1)] : t \in PsfTypes}

\* the pixel grid descriptor: Nx x Ny pixels, three angle units wide each
PixelGrids == {[num_pixel_axes |-> <<Nx, Ny>>, pixel_width |-> 3]}

\* compute_mode: the two documented options and a string that is neither
ComputeModes == {"regular", "adaptive", "other"}

\* the masks a caller passes: None, a mask of the grid's shape, a mask of another shape
FluxEvaluateMasks ==
    {NoneMask, Mask(Nx, Ny, Pixels(Nx, Ny) \ {<<1, 1>>}), Mask(Nx + 1, Ny, {})}
SupersampledMasks ==
    {NoneMask, Mask(Nx, Ny, {<<Nx, Ny>>}), Mask(Nx + 1, Ny, {})}
ComputeMasks ==
    {NoneMask, Mask(Nx, Ny, Pixels(Nx, Ny) \ {<<Nx, Ny>>}), Mask(Nx + 1, Ny, {})}

Arguments ==
    [pixel_grid : PixelGrids, psf : PSFs,
     supersampling_factor : 1..MaxSupersampling,
     compute_mode : ComputeModes,
     supersampling_convolution : BOOLEAN,
     supersampling_kernel_size : {DefaultSupersamplingKernelSize},
     flux_evaluate_indexes : FluxEvaluateMasks,
     supersampled_indexes : SupersampledMasks,
     compute_indexes : ComputeMasks]

NoArguments == [none |-> TRUE]
NoSelf == [psf_type |-> "", pixel_width |-> 0, grid |-> NoGrid, conv |-> NoConv,
           point_source |-> FALSE]
NoReturn == [op |-> "none"]
NoManager == [none |-> TRUE]

\* faulty variant: the normalisation is left out
NormalizeSupersamplingConvolution_Skipped(supersampling_factor, supersampling_convolution) ==
    supersampling_convolution

\* "if no super sampling, turn the supersampling convolution off"
NormalizeSupersamplingConvolution(supersampling_factor, supersampling_convolution) ==
    IF supersampling_factor = 1 THEN FALSE ELSE supersampling_convolution

\* supersampled_indexes = None becomes np.zeros((nx, ny), dtype=bool)
DefaultSupersampledIndexes(supersampled_indexes, nx, ny) ==
    IF supersampled_indexes.none THEN Mask(nx, ny, {}) ELSE supersampled_indexes

\* self._grid
SelectGrid(compute_mode, nx, ny, supersampled_indexes, supersampling_factor, flux_evaluate_indexes) ==
    IF compute_mode = "adaptive"
    THEN AdaptiveGrid(nx, ny, supersampled_indexes, supersampling_factor,
                      flux_evaluate_indexes)
    ELSE RegularGrid(nx, ny, supersampling_factor, flux_evaluate_indexes)

\* faulty variant: the two supersampled PIXEL branches test the wrong compute mode
SelectConvolution_ModesSwapped(psf, pixel_grid, compute_mode, supersampling_factor, supersampling_convolution, supersampling_kernel_size, supersampled_indexes, compute_indexes) ==
    IF psf.psf_type = "PIXEL"
    THEN IF compute_mode = "regular" /\ supersampling_convolution = TRUE
         THEN AdaptiveConvolution(
                  KernelPointSourceSupersampled(psf, supersampling_factor),
                  supersampling_factor, supersampled_indexes,
                  supersampling_kernel_size, compute_indexes,
                  pixel_grid.num_pixel_axes[1], pixel_grid.num_pixel_axes[2])
         ELSE IF compute_mode = "adaptive" /\ supersampling_convolution = TRUE
         THEN [error |-> "none",
               conv |-> SubgridKernelConvolution(
                            KernelPointSourceSupersampled(psf, supersampling_factor),
                            supersampling_factor, supersampling_kernel_size, "fft")]
         ELSE [error |-> "none",
               conv |-> PixelKernelConvolution(psf.kernel_point_source, "fft")]
    ELSE IF psf.psf_type = "GAUSSIAN"
    THEN [error |-> "none",
          conv |-> MultiGaussianConvolution(
                       <<Fwhm2Sigma(psf.fwhm)>>, <<1>>, pixel_grid.pixel_width,
                       supersampling_factor, supersampling_convolution,
                       GaussianTruncation)]
    ELSE IF psf.psf_type = "NONE"
    THEN [error |-> "none", conv |-> NoConv]
    ELSE [error |-> "InvalidConfiguration: psf_type", conv |-> NoConv]

\* faulty variant: the final else treats any other psf_type as NONE instead of raising
SelectConvolution_NoRaise(psf, pixel_grid, compute_mode, supersampling_factor, supersampling_convolution, supersampling_kernel_size, supersampled_indexes, compute_indexes) ==
    IF psf.psf_type = "PIXEL"
    THEN IF compute_mode = "adaptive" /\ supersampling_convolution = TRUE
         THEN AdaptiveConvolution(
                  KernelPointSourceSupersampled(psf, supersampling_factor),
                  supersampling_factor, supersampled_indexes,
                  supersampling_kernel_size, compute_indexes,
                  pixel_grid.num_pixel_axes[1], pixel_grid.num_pixel_axes[2])
         ELSE IF compute_mode = "regular" /\ supersampling_convolution = TRUE
         THEN [error |-> "none",
               conv |-> SubgridKernelConvolution(
                            KernelPointSourceSupersampled(psf, supersampling_factor),
                            supersampling_factor, supersampling_kernel_size, "fft")]
         ELSE [error |-> "none",
               conv |-> PixelKernelConvolution(psf.kernel_point_source, "fft")]
    ELSE IF psf.psf_type = "GAUSSIAN"
    THEN [error |-> "none",
          conv |-> MultiGaussianConvolution(
                       <<Fwhm2Sigma(psf.fwhm)>>, <<1>>, pixel_grid.pixel_width,
                       supersampling_factor, supersampling_convolution,
                       GaussianTruncation)]
    ELSE [error |-> "none", conv |-> NoConv]

\* self._conv, or the ValueError of an invalid psf_type
SelectConvolution(psf, pixel_grid, compute_mode, supersampling_factor, supersampling_convolution, supersampling_kernel_size, supersampled_indexes, compute_indexes) ==
    IF psf.psf_type = "PIXEL"
    THEN IF compute_mode = "adaptive" /\ supersampling_convolution = TRUE
         THEN AdaptiveConvolution(
                  KernelPointSourceSupersampled(psf, supersampling_factor),
                  supersampling_factor, supersampled_indexes,
                  supersampling_kernel_size, compute_indexes,
                  pixel_grid.num_pixel_axes[1], pixel_grid.num_pixel_axes[2])
         ELSE IF compute_mode = "regular" /\ supersampling_convolution = TRUE
         THEN [error |-> "none",
               conv |-> SubgridKernelConvolution(
                            KernelPointSourceSupersampled(psf, supersampling_factor),
                            supersampling_factor, supersampling_kernel_size, "fft")]
         ELSE [error |-> "none",
               conv |-> PixelKernelConvolution(psf.kernel_point_source, "fft")]
    ELSE IF psf.psf_type = "GAUSSIAN"
    THEN [error |-> "none",
          conv |-> MultiGaussianConvolution(
                       <<Fwhm2Sigma(psf.fwhm)>>, <<1>>, pixel_grid.pixel_width,
                       supersampling_factor, supersampling_convolution,
                       GaussianTruncation)]
    ELSE IF psf.psf_type = "NONE"
    THEN [error |-> "none", conv |-> NoConv]
    ELSE [error |-> "InvalidConfiguration: psf_type", conv |-> NoConv]

\* PointSourceRendering.__init__(pixel_grid, supersampling_factor, psf)
PointSourceRenderingInit(obj) == [obj EXCEPT !.point_source = TRUE]

\* Numerics.__init__: the error raised ("none" when it returns) and the
\* attributes set by then
NumericsInit(a) ==
    LET supersampling_convolution ==
            NormalizeSupersamplingConvolution(a.supersampling_factor,
                                              a.supersampling_convolution)
        nx == a.pixel_grid.num_pixel_axes[1]
        ny == a.pixel_grid.num_pixel_axes[2]
        supersampled_indexes == DefaultSupersampledIndexes(a.supersampled_indexes, nx, ny)
        g == SelectGrid(a.compute_mode, nx, ny, supersampled_indexes,
                        a.supersampling_factor, a.flux_evaluate_indexes)
        c == SelectConvolution(a.psf, a.pixel_grid, a.compute_mode,
                               a.supersampling_factor, supersampling_convolution,
                               a.supersampling_kernel_size, supersampled_indexes,
                               a.compute_indexes)
        s0 == [NoSelf EXCEPT !.psf_type = a.psf.psf_type,
                             !.pixel_width = a.pixel_grid.pixel_width]
        s1 == [s0 EXCEPT !.grid = g.grid]
        s2 == [s1 EXCEPT !.conv = c.conv]
    IN IF g.error # "none" THEN [error |-> g.error, self |-> s0]
       ELSE IF c.error # "none" THEN [error |-> c.error, self |-> s1]
       ELSE [error |-> "none", self |-> PointSourceRenderingInit(s2)]

(* ------------------- re_size_convolve, coordinates_evaluate ------------ *)
\* faulty variant: the pixel area is multiplied in twice
Scale_Twice(image, pixel_width) == [p \in DOMAIN image |-> image[p] * pixel_width * pixel_width * pixel_width * pixel_width]

\* image * pixel_width ** 2
Scale(image, pixel_width) == [p \in DOMAIN image |-> image[p] * pixel_width * pixel_width]

\* faulty variant: the unconvolved flag is not looked at
ReSizeConvolve_FlagIgnored(obj, flux_array, unconvolved) ==
    LET g == FluxArray2ImageLowHigh(obj.grid, flux_array)
        c == ConvReSizeConvolve(obj.conv, g.low, g.high, obj.grid.nx, obj.grid.ny)
    IN IF g.error # "none"
       THEN [error |-> g.error, image |-> NoImage, conv_invoked |-> FALSE]
       ELSE IF obj.psf_type = "NONE"
       THEN [error |-> "none", image |-> Scale(g.low, obj.pixel_width),
             conv_invoked |-> FALSE]
       ELSE IF c.error # "none"
       THEN [error |-> c.error, image |-> NoImage, conv_invoked |-> TRUE]
       ELSE [error |-> "none", image |-> Scale(c.image, obj.pixel_width),
             conv_invoked |-> TRUE]

\* faulty variant: the psf_type is not looked at, so a NONE engine calls its missing
\* convolution
ReSizeConvolve_NoneNotTested(obj, flux_array, unconvolved) ==
    LET g == FluxArray2ImageLowHigh(obj.grid, flux_array)
        c == ConvReSizeConvolve(obj.conv, g.low, g.high, obj.grid.nx, obj.grid.ny)
    IN IF g.error # "none"
       THEN [error |-> g.error, image |-> NoImage, conv_invoked |-> FALSE]
       ELSE IF unconvolved = TRUE
       THEN [error |-> "none", image |-> Scale(g.low, obj.pixel_width),
             conv_invoked |-> FALSE]
       ELSE IF c.error # "none"
       THEN [error |-> c.error, image |-> NoImage, conv_invoked |-> TRUE]
       ELSE [error |-> "none", image |-> Scale(c.image, obj.pixel_width),
             conv_invoked |-> TRUE]

\* faulty variant: the error of the grid is swallowed and an empty image returned
ReSizeConvolve_ErrorSwallowed(obj, flux_array, unconvolved) ==
    LET g == FluxArray2ImageLowHigh(obj.grid, flux_array)
        c == ConvReSizeConvolve(obj.conv, g.low, g.high, obj.grid.nx, obj.grid.ny)
    IN IF g.error # "none"
       THEN [error |-> "none", image |-> NoImage, conv_invoked |-> FALSE]
       ELSE IF unconvolved = TRUE \/ obj.psf_type = "NONE"
       THEN [error |-> "none", image |-> Scale(g.low, obj.pixel_width),
             conv_invoked |-> FALSE]
       ELSE IF c.error # "none"
       THEN [error |-> c.error, image |-> NoImage, conv_invoked |-> TRUE]
       ELSE [error |-> "none", image |-> Scale(c.image, obj.pixel_width),
             conv_invoked |-> TRUE]

\* Numerics.re_size_convolve(flux_array, unconvolved): the error raised, the
\* image returned and whether self._conv.re_size_convolve was called
ReSizeConvolve(obj, flux_array, unconvolved) ==
    LET g == FluxArray2ImageLowHigh(obj.grid, flux_array)
        c == ConvReSizeConvolve(obj.conv, g.low, g.high, obj.grid.nx, obj.grid.ny)
    IN IF g.error # "none"
       THEN [error |-> g.error, image |-> NoImage, conv_invoked |-> FALSE]
       ELSE IF unconvolved = TRUE \/ obj.psf_type = "NONE"
       THEN [error |-> "none", image |-> Scale(g.low, obj.pixel_width),
             conv_invoked |-> FALSE]
       ELSE IF c.error # "none"
       THEN [error |-> c.error, image |-> NoImage, conv_invoked |-> TRUE]
       ELSE [error |-> "none", image |-> Scale(c.image, obj.pixel_width),
             conv_invoked |-> TRUE]

\* faulty variant: an unconvolved call switches the engine to no convolution
SelfAfterReSizeConvolve_ConvDropped(obj, flux_array, unconvolved) ==
    IF unconvolved = TRUE THEN [obj EXCEPT !.conv = NoConv, !.psf_type = "NONE"] ELSE obj

\* the attributes of the object after re_size_convolve: it assigns none
SelfAfterReSizeConvolve(obj, flux_array, unconvolved) == obj

\* faulty variant: the coordinates of the native pixels, whatever the supersampling
CoordinatesEvaluate_LowResOnly(obj) ==
    GridCoordinates([obj.grid EXCEPT !.supersampling_factor = 1])

\* Numerics.coordinates_evaluate
CoordinatesEvaluate(obj) == GridCoordinates(obj.grid)

\* the flux arrays a caller passes to an engine that expects n samples: all
\* equal, one bright sample (the first, the last), and arrays one sample short
\* or long.  The samples are multiples of s * s, so that block means are whole
FluxArrays(n, s) ==
    {[k \in 1..n |-> s * s], [k \in 1..(n + 1) |-> s * s]}
    \cup {[k \in 1..n |-> IF k = j THEN s * s ELSE 0] : j \in {1, n} \cap (1..n)}
    \cup (IF n > 0 THEN {[k \in 1..(n - 1) |-> s * s]} ELSE {})

NoCalls == <<>>

(* ----------------------------- the machine ---------------------------- *)
Init ==
    /\ phase = "new"
    /\ args = NoArguments
    /\ self = NoSelf
    /\ ret = NoReturn
    /\ built = NoSelf
    /\ calls = NoCalls
    /\ um = NoManager
    /\ umret = NoReturn
    /\ supplied = NoArguments

\* Numerics(pixel_grid, psf, ...)
Construct ==
    /\ phase = "new"
    /\ \E a \in Arguments :
          LET r == NumericsInit(a)
          IN /\ args' = a
             /\ self' = r.self
             /\ built' = r.self
             /\ phase' = IF r.error = "none" THEN "built" ELSE "failed"
             /\ ret' = [op |-> "__init__", error |-> r.error]
    /\ UNCHANGED <<calls, um, umret, supplied>>

\* numerics.re_size_convolve(flux_array, unconvolved)
CallReSizeConvolve ==
    /\ phase = "built"
    /\ \E flux_array \in FluxArrays(Len(GridCoordinates(self.grid)),
                                    self.grid.supersampling_factor),
          unconvolved \in BOOLEAN :
          LET r == ReSizeConvolve(self, flux_array, unconvolved)
          IN /\ ret' = [op |-> "re_size_convolve", flux_array |-> flux_array,
                        unconvolved |-> unconvolved, error |-> r.error,
                        image |-> r.image, conv_invoked |-> r.conv_invoked,
                        after_failure |-> (ret.op = "re_size_convolve"
                                           /\ ret.error # "none")]
             /\ self' = SelfAfterReSizeConvolve(self, flux_array, unconvolved)
    /\ UNCHANGED <<phase, args, built, calls, um, umret, supplied>>

\* numerics.coordinates_evaluate
ReadCoordinatesEvaluate ==
    /\ phase = "built"
    /\ LET r == CoordinatesEvaluate(self)
       IN ret' = [op |-> "coordinates_evaluate", value |-> r,
                  after_render |-> ret.op = "re_size_convolve"]
    /\ UNCHANGED <<phase, args, self, built, calls, um, umret, supplied>>

Next == Construct \/ CallReSizeConvolve \/ ReadCoordinatesEvaluate

Spec == Init /\ [][Next]_vars

(* ------------------- re_size_convolve, line by line -------------------- *)
\* Two calls of re_size_convolve in progress on one constructed engine, each
\* with its own flux_array and unconvolved and its own local variables
\* image_low_res, image_high_res_partial and image_conv.
Threads == {1, 2}

NewCall(flux_array, unconvolved) ==
    [pc |-> "line95", flux_array |-> flux_array, unconvolved |-> unconvolved,
     image_low_res |-> NoImage, image_high_res_partial |-> NoImage,
     image_conv |-> NoImage, error |-> "none", image |-> NoImage,
     overlapped |-> FALSE]

\* faulty variant: the unconvolved flag is kept on the object between the lines
RenderStep_FlagOnObject(obj, c) ==
    IF c.pc = "line95"
    THEN LET g == FluxArray2ImageLowHigh(obj.grid, c.flux_array)
         IN IF g.error # "none"
            THEN [obj |-> obj, call |-> [c EXCEPT !.pc = "raised", !.error = g.error]]
            ELSE [obj |-> [obj EXCEPT !.point_source = c.unconvolved],
                  call |-> [c EXCEPT !.pc = "line96", !.image_low_res = g.low,
                                     !.image_high_res_partial = g.high]]
    ELSE IF c.pc = "line96"
    THEN IF obj.point_source = TRUE \/ obj.psf_type = "NONE"
         THEN [obj |-> obj,
               call |-> [c EXCEPT !.pc = "line101", !.image_conv = c.image_low_res]]
         ELSE LET r == ConvReSizeConvolve(obj.conv, c.image_low_res,
                                          c.image_high_res_partial,
                                          obj.grid.nx, obj.grid.ny)
              IN IF r.error # "none"
                 THEN [obj |-> obj, call |-> [c EXCEPT !.pc = "raised", !.error = r.error]]
                 ELSE [obj |-> obj,
                       call |-> [c EXCEPT !.pc = "line101", !.image_conv = r.image]]
    ELSE [obj |-> obj,
          call |-> [c EXCEPT !.pc = "returned",
                             !.image = Scale(c.image_conv, obj.pixel_width)]]

\* one line of re_size_convolve: the object and the call's local variables after it
\*   line95:  image_low_res, image_high_res_partial = grid.flux_array2image_low_high
\*   line96:  image_conv = image_low_res, or self._conv.re_size_convolve(...)
\*   line101: return image_conv * self._pixel_width ** 2
RenderStep(obj, c) ==
    IF c.pc = "line95"
    THEN LET g == FluxArray2ImageLowHigh(obj.grid, c.flux_array)
         IN IF g.error # "none"
            THEN [obj |-> obj, call |-> [c EXCEPT !.pc = "raised", !.error = g.error]]
            ELSE [obj |-> obj,
                  call |-> [c EXCEPT !.pc = "line96", !.image_low_res = g.low,
                                     !.image_high_res_partial = g.high]]
    ELSE IF c.pc = "line96"
    THEN IF c.unconvolved = TRUE \/ obj.psf_type = "NONE"
         THEN [obj |-> obj,
               call |-> [c EXCEPT !.pc = "line101", !.image_conv = c.image_low_res]]
         ELSE LET r == ConvReSizeConvolve(obj.conv, c.image_low_res,
                                          c.image_high_res_partial,
                                          obj.grid.nx, obj.grid.ny)
              IN IF r.error # "none"
                 THEN [obj |-> obj, call |-> [c EXCEPT !.pc = "raised", !.error = r.error]]
                 ELSE [obj |-> obj,
                       call |-> [c EXCEPT !.pc = "line101", !.image_conv = r.image]]
    ELSE [obj |-> obj,
          call |-> [c EXCEPT !.pc = "returned",
                             !.image = Scale(c.image_conv, obj.pixel_width)]]

\* the engines the two calls run on: a documented compute_mode, no
\* flux_evaluate and no compute mask, a supersampled mask of the grid's shape
ConcurrentArguments ==
    {a \in Arguments : /\ a.compute_mode \in {"regular", "adaptive"}
                       /\ a.flux_evaluate_indexes.none
                       /\ a.compute_indexes.none
                       /\ \/ a.supersampled_indexes.none
                          \/ ShapeOk(a.supersampled_indexes, Nx, Ny)
                       /\ NumericsInit(a).error = "none"}

\* the flux arrays of the two calls: those of FluxArrays that are not too long
\* and do not end in a zero
ConcurrentFluxArrays(n, s) ==
    {f \in FluxArrays(n, s) : Len(f) <= n /\ (Len(f) > 0 => f[Len(f)] # 0 \/ Len(f) = 1)}

InitConcurrent ==
    /\ phase = "built"
    /\ args \in ConcurrentArguments
    /\ self = NumericsInit(args).self
    /\ built = self
    /\ ret = [op |-> "__init__", error |-> "none"]
    /\ um = NoManager
    /\ umret = NoReturn
    /\ supplied = NoArguments
    /\ calls \in [Threads ->
                    {NewCall(f, u) :
                        f \in ConcurrentFluxArrays(Len(GridCoordinates(self.grid)),
                                                   self.grid.supersampling_factor),
                        u \in BOOLEAN}]

Running(c) == c.pc \in {"line95", "line96", "line101"}
Started(c) == c.pc \in {"line96", "line101"}

\* the call of thread t executes its next line
StepCall(t) ==
    /\ Running(calls[t])
    /\ LET r == RenderStep(self, calls[t])
       IN /\ self' = r.obj
          /\ calls' = [calls EXCEPT ![t] =
                          [r.call EXCEPT !.overlapped =
                              calls[t].overlapped
                              \/ \E o \in Threads \ {t} : Started(calls[o])]]
    /\ UNCHANGED <<phase, args, built, ret, um, umret, supplied>>

NextConcurrent == \E t \in Threads : StepCall(t)

SpecConcurrent == InitConcurrent /\ [][NextConcurrent]_vars

(* ---------------------------- UpdateManager ---------------------------- *)
\* Python values.  A parameter value is a string ("1.0"): the manager stores
\* and copies values and tests them against None, nothing else.  A dict is a
\* function on its keys, a list a sequence; Python index i is position i + 1.
None == "None"
NoneObj == [none |-> TRUE]
Some(v) == [none |-> FALSE, val |-> v]
EmptyDict == [k \in {} |-> None]
Put(d, k, v) == [x \in DOMAIN d \cup {k} |-> IF x = k THEN v ELSE d[x]]
Del(d, k) == [x \in DOMAIN d \ {k} |-> d[x]]
Min(a, b) == IF a < b THEN a ELSE b

\* the model types and the keys of the parameter state
ListTypes == <<"lens", "source", "lens_light", "ps">>
StateKeys == {"kwargs_lens", "kwargs_source", "kwargs_lens_light", "kwargs_ps", "kwargs_special", "kwargs_extinction"}
TypeOfKey ==
    [kwargs_lens |-> "lens", kwargs_source |-> "source",
     kwargs_lens_light |-> "lens_light", kwargs_ps |-> "ps",
     kwargs_special |-> "special", kwargs_extinction |-> "extinction"]
KeyOfType ==
    [lens |-> "kwargs_lens", source |-> "kwargs_source",
     lens_light |-> "kwargs_lens_light", ps |-> "kwargs_ps",
     special |-> "kwargs_special", extinction |-> "kwargs_extinction"]

\* the keyword arguments of the constructor: a lens, two sources, a lens
\* light and a point source; no optical depth model
KwargsModel ==
    [lens_model_list |-> <<"SIS">>,
     source_light_model_list |-> <<"SERSIC", "SERSIC">>,
     lens_light_model_list |-> <<"SERSIC">>,
     point_source_model_list |-> <<"LENSED_POSITION">>]
KwargsConstraints == [num_point_source_list |-> "4"]
KwargsLikelihood == [check_bounds |-> "True"]

\* kwargs_params[...] = [init, sigma, fixed, lower, upper]
KwargsParams ==
    [lens_model |->
        << <<[theta_E |-> "1.0", center_x |-> "0.0"]>>,
           <<[theta_E |-> "0.1", center_x |-> "0.1"]>>,
           <<[center_x |-> "0.0"]>>,
           <<[theta_E |-> "0.01", center_x |-> "-1"]>>,
           <<[theta_E |-> "10", center_x |-> "1"]>> >>,
     source_model |->
        << <<[amp |-> "1.0", R_sersic |-> "0.5"], [amp |-> "2.0", R_sersic |-> "0.3"]>>,
           <<[amp |-> "0.1", R_sersic |-> "0.1"], [amp |-> "0.1", R_sersic |-> "0.1"]>>,
           <<EmptyDict, EmptyDict>>,
           <<[amp |-> "0", R_sersic |-> "0.001"], [amp |-> "0", R_sersic |-> "0.001"]>>,
           <<[amp |-> "100", R_sersic |-> "10"], [amp |-> "100", R_sersic |-> "10"]>> >>,
     lens_light_model |->
        << <<[amp |-> "3.0"]>>, <<[amp |-> "0.1"]>>, <<EmptyDict>>,
           <<[amp |-> "0"]>>, <<[amp |-> "100"]>> >>,
     point_source_model |->
        << <<[ra_image |-> "0.1"]>>, <<[ra_image |-> "0.01"]>>, <<EmptyDict>>,
           <<[ra_image |-> "-10"]>>, <<[ra_image |-> "10"]>> >>,
     special |->
        << [delta_x |-> "0.0", delta_y |-> "0.2"], [delta_x |-> "0.1", delta_y |-> "0.1"],
           [delta_y |-> "0.7"],
           [delta_x |-> "-1", delta_y |-> "-1"], [delta_x |-> "1", delta_y |-> "1"] >>]

\* the five lists of a model type: kwargs_params[params_key] when the model
\* list is given in kwargs_model, five empty lists otherwise
InitType(kwargs_model, kwargs_params, list_key, params_key) ==
    IF list_key \in DOMAIN kwargs_model
    THEN kwargs_params[params_key]
    ELSE << <<>>, <<>>, <<>>, <<>>, <<>> >>

\* init_kwargs: the six initial lists themselves, not copies
InitKwargs(m) == [k \in StateKeys |-> [ref |-> "init"]]

\* UpdateManager(kwargs_model, kwargs_constraints, kwargs_likelihood, kwargs_params)
UpdateManagerInit(kwargs_model, kwargs_constraints, kwargs_likelihood, kwargs_params) ==
    LET lens == InitType(kwargs_model, kwargs_params, "lens_model_list", "lens_model")
        source == InitType(kwargs_model, kwargs_params, "source_light_model_list", "source_model")
        lens_light == InitType(kwargs_model, kwargs_params, "lens_light_model_list", "lens_light_model")
        ps == InitType(kwargs_model, kwargs_params, "point_source_model_list", "point_source_model")
        extinction == InitType(kwargs_model, kwargs_params, "optical_depth_model_list", "extinction_model")
        special == IF "special" \in DOMAIN kwargs_params
                   THEN kwargs_params["special"]
                   ELSE <<EmptyDict, EmptyDict, EmptyDict, EmptyDict, EmptyDict>>
        Attr(n) == [lens |-> lens[n], source |-> source[n], lens_light |-> lens_light[n],
                    ps |-> ps[n], special |-> special[n], extinction |-> extinction[n]]
        m == [kwargs_model |-> kwargs_model, kwargs_constraints |-> kwargs_constraints,
              kwargs_likelihood |-> kwargs_likelihood,
              init |-> Attr(1), sigma |-> Attr(2), fixed |-> Attr(3),
              lower |-> Attr(4), upper |-> Attr(5)]
    IN [kwargs_model |-> m.kwargs_model, kwargs_constraints |-> m.kwargs_constraints,
        kwargs_likelihood |-> m.kwargs_likelihood,
        init |-> m.init, sigma |-> m.sigma, fixed |-> m.fixed,
        lower |-> m.lower, upper |-> m.upper, temp |-> InitKwargs(m)]

\* parameter_state: self._kwargs_temp, each entry read through its reference
ParameterState(m) ==
    [k \in StateKeys |->
        IF m.temp[k].ref = "init" THEN Some(m.init[TypeOfKey[k]])
        ELSE IF m.temp[k].ref = "arg" THEN Some(m.temp[k].val)
        ELSE NoneObj]

\* set_init_state: self._kwargs_temp = self.init_kwargs
SetInitState(m) == [m EXCEPT !.temp = InitKwargs(m)]

\* faulty variant: an omitted argument keeps the entry saved before
UpdateParamState_KeepOmitted(m, a) ==
    [m EXCEPT !.temp = [k \in StateKeys |->
                          IF a[k].none THEN m.temp[k]
                          ELSE [ref |-> "arg", val |-> a[k].val]]]

\* update_param_state(kwargs_lens=None, ..., kwargs_extinction=None): a new
\* dict of the six arguments, the omitted ones None
UpdateParamState(m, a) ==
    [m EXCEPT !.temp = [k \in StateKeys |->
                          IF a[k].none THEN [ref |-> "None"]
                          ELSE [ref |-> "arg", val |-> a[k].val]]]

\* self._kwargs_temp[kwargs_key][index][key] = value: the assignment goes to
\* the list the entry refers to, the initial list itself when it is that one
SetItem(m, kwargs_key, index, key, value) ==
    LET t == m.temp[kwargs_key]
        type == TypeOfKey[kwargs_key]
    IN IF t.ref = "None" THEN [error |-> "TypeError", m |-> m]
       ELSE IF t.ref = "init"
       THEN IF index + 1 > Len(m.init[type]) THEN [error |-> "IndexError", m |-> m]
            ELSE [error |-> "none",
                  m |-> [m EXCEPT !.init[type][index + 1] = Put(@, key, value)]]
       ELSE IF index + 1 > Len(t.val) THEN [error |-> "IndexError", m |-> m]
            ELSE [error |-> "none",
                  m |-> [m EXCEPT !.temp[kwargs_key].val[index + 1] = Put(@, key, value)]]

\* for key, value in zip(keys, values): the assignments of one item
ItemAssignments(kwargs_key, item) ==
    [j \in 1..Min(Len(item[2]), Len(item[3])) |->
        <<kwargs_key, item[1], item[2][j], item[3][j]>>]

\* for item in items: the assignments of the items, in order
RECURSIVE ItemsAssignments(_, _)
ItemsAssignments(kwargs_key, items) ==
    IF items = <<>> THEN <<>>
    ELSE ItemAssignments(kwargs_key, Head(items))
         \o ItemsAssignments(kwargs_key, Tail(items))

\* the assignments are made one after the other; one that raises ends the
\* call and leaves the earlier ones made
RECURSIVE SetItems(_, _)
SetItems(m, todo) ==
    IF todo = <<>> THEN [error |-> "none", m |-> m]
    ELSE LET r == SetItem(m, Head(todo)[1], Head(todo)[2], Head(todo)[3], Head(todo)[4])
         IN IF r.error # "none" THEN r ELSE SetItems(r.m, Tail(todo))

\* update_param_value(lens=[], source=[], lens_light=[], ps=[])
UpdateParamValue(m, a) ==
    SetItems(m, ItemsAssignments("kwargs_lens", a.lens)
                \o ItemsAssignments("kwargs_source", a.source)
                \o ItemsAssignments("kwargs_lens_light", a.lens_light)
                \o ItemsAssignments("kwargs_ps", a.ps))

\* faulty variant: the lens parameters handed over are the initial ones
ParamClass_InitialLens(m) ==
    [kwargs_model |-> m.kwargs_model,
     kwargs_fixed |-> m.fixed, kwargs_lower |-> m.lower, kwargs_upper |-> m.upper,
     kwargs_lens_init |-> Some(m.init.lens),
     kwargs_constraints |-> m.kwargs_constraints]

\* param_class: the arguments Param is constructed with
ParamClass(m) ==
    [kwargs_model |-> m.kwargs_model,
     kwargs_fixed |-> m.fixed, kwargs_lower |-> m.lower, kwargs_upper |-> m.upper,
     kwargs_lens_init |-> ParameterState(m)["kwargs_lens"],
     kwargs_constraints |-> m.kwargs_constraints]

\* dict.update(other): the dict afterwards
DictUpdate(d, other) ==
    [k \in DOMAIN d \cup DOMAIN other |-> IF k \in DOMAIN other THEN other[k] ELSE d[k]]

\* dict.update(other): what the call evaluates to
DictUpdateValue(d, other) == NoneObj

\* update_options(kwargs_model, kwargs_constraints, kwargs_likelihood)
UpdateOptions(m, a) ==
    [m |-> [m EXCEPT !.kwargs_model = DictUpdate(@, a.kwargs_model),
                     !.kwargs_constraints = DictUpdate(@, a.kwargs_constraints),
                     !.kwargs_likelihood = DictUpdate(@, a.kwargs_likelihood)],
     returned |-> <<DictUpdateValue(m.kwargs_model, a.kwargs_model),
                    DictUpdateValue(m.kwargs_constraints, a.kwargs_constraints),
                    DictUpdateValue(m.kwargs_likelihood, a.kwargs_likelihood)>>]

\* the assignments of the loops over i and j: model, name, values, position
RECURSIVE NamedSteps(_)
NamedSteps(entries) ==
    IF entries = <<>> THEN <<>>
    ELSE LET e == Head(entries)
         IN [j \in 1..Len(e[2]) |-> <<e[1], e[2][j], e[3], j>>]
            \o NamedSteps(Tail(entries))

\* kwargs_limit_updated[i_model][param_name] = values[j], one after the other
RECURSIVE SetLimits(_, _)
SetLimits(kwargs_limit, todo) ==
    IF todo = <<>> THEN [error |-> "none", limit |-> kwargs_limit]
    ELSE LET i_model == Head(todo)[1]
             param_name == Head(todo)[2]
             values == Head(todo)[3]
             j == Head(todo)[4]
         IN IF j > Len(values) \/ i_model + 1 > Len(kwargs_limit)
            THEN [error |-> "IndexError", limit |-> kwargs_limit]
            ELSE SetLimits([kwargs_limit EXCEPT ![i_model + 1] = Put(@, param_name, values[j])],
                           Tail(todo))

\* faulty variant: the previous limits are changed in place, no copy is made
UpdateLimit_InPlace(change_limit, kwargs_limit_previous) ==
    LET r == SetLimits(kwargs_limit_previous, NamedSteps(change_limit))
    IN [error |-> r.error, updated |-> r.limit, previous |-> r.limit]

\* _update_limit(change_limit, kwargs_limit_previous): the limits returned,
\* and the previous limits as the call leaves them (it works on a deep copy)
UpdateLimit(change_limit, kwargs_limit_previous) ==
    LET r == SetLimits(kwargs_limit_previous, NamedSteps(change_limit))
    IN [error |-> r.error, updated |-> r.limit, previous |-> kwargs_limit_previous]

\* update_limits(change_source_lower_limit=None, change_source_upper_limit=None);
\* held_lower and held_upper are the lists self._source_lower and
\* self._source_upper referred to before the call, as the call leaves them
UpdateLimits(m, a) ==
    LET lo == IF a.change_source_lower_limit.none
              THEN [error |-> "none", updated |-> m.lower.source, previous |-> m.lower.source]
              ELSE UpdateLimit(a.change_source_lower_limit.val, m.lower.source)
        m1 == [m EXCEPT !.lower.source = lo.updated]
        up == IF a.change_source_upper_limit.none
              THEN [error |-> "none", updated |-> m.upper.source, previous |-> m.upper.source]
              ELSE UpdateLimit(a.change_source_upper_limit.val, m.upper.source)
    IN IF lo.error # "none"
       THEN [error |-> lo.error, m |-> m,
             held_lower |-> lo.previous, held_upper |-> m.upper.source]
       ELSE IF up.error # "none"
       THEN [error |-> up.error, m |-> m1,
             held_lower |-> lo.previous, held_upper |-> up.previous]
       ELSE [error |-> "none", m |-> [m1 EXCEPT !.upper.source = up.updated],
             held_lower |-> lo.previous, held_upper |-> up.previous]

\* faulty variant: the value given in the add entry is not used
AddFixedName_ValueIgnored(kwargs_model, kwargs_fixed, i_model, param_name, value) ==
    IF kwargs_model.none THEN [error |-> "TypeError", fixed |-> kwargs_fixed]
    ELSE IF i_model + 1 > Len(kwargs_model.val) \/ i_model + 1 > Len(kwargs_fixed)
    THEN [error |-> "IndexError", fixed |-> kwargs_fixed]
    ELSE IF param_name \notin DOMAIN kwargs_model.val[i_model + 1]
    THEN [error |-> "KeyError", fixed |-> kwargs_fixed]
    ELSE [error |-> "none",
          fixed |-> [kwargs_fixed EXCEPT ![i_model + 1] =
                        Put(@, param_name, kwargs_model.val[i_model + 1][param_name])]]

\* if values[j] is None: kwargs_fixed[i_model][param_name] = kwargs_model[i_model][param_name]
\* else:                 kwargs_fixed[i_model][param_name] = values[j]
AddFixedName(kwargs_model, kwargs_fixed, i_model, param_name, value) ==
    IF value = None
    THEN IF kwargs_model.none THEN [error |-> "TypeError", fixed |-> kwargs_fixed]
         ELSE IF i_model + 1 > Len(kwargs_model.val)
         THEN [error |-> "IndexError", fixed |-> kwargs_fixed]
         ELSE IF param_name \notin DOMAIN kwargs_model.val[i_model + 1]
         THEN [error |-> "KeyError", fixed |-> kwargs_fixed]
         ELSE IF i_model + 1 > Len(kwargs_fixed)
         THEN [error |-> "IndexError", fixed |-> kwargs_fixed]
         ELSE [error |-> "none",
               fixed |-> [kwargs_fixed EXCEPT ![i_model + 1] =
                            Put(@, param_name, kwargs_model.val[i_model + 1][param_name])]]
    ELSE IF i_model + 1 > Len(kwargs_fixed)
         THEN [error |-> "IndexError", fixed |-> kwargs_fixed]
         ELSE [error |-> "none",
               fixed |-> [kwargs_fixed EXCEPT ![i_model + 1] = Put(@, param_name, value)]]

\* an add entry [i_model, fix_names] or [i_model, fix_names, values] with its
\* values filled in: [None] * len(fix_names) when the entry gives none
WithValues(entry) ==
    IF Len(entry) > 2 THEN entry
    ELSE <<entry[1], entry[2], [j \in 1..Len(entry[2]) |-> None]>>

\* the names of the add entries are fixed one after the other, in kwargs_fixed
\* itself; a step that raises ends the call and leaves the earlier ones made
RECURSIVE AddFixedSteps(_, _, _)
AddFixedSteps(kwargs_model, kwargs_fixed, todo) ==
    IF todo = <<>> THEN [error |-> "none", fixed |-> kwargs_fixed]
    ELSE LET values == Head(todo)[3]
             j == Head(todo)[4]
             r == AddFixedName(kwargs_model, kwargs_fixed, Head(todo)[1], Head(todo)[2], values[j])
         IN IF j > Len(values) THEN [error |-> "IndexError", fixed |-> kwargs_fixed]
            ELSE IF r.error # "none" THEN r
            ELSE AddFixedSteps(kwargs_model, r.fixed, Tail(todo))

\* _add_fixed(kwargs_model, kwargs_fixed, add_fixed)
AddFixed(kwargs_model, kwargs_fixed, add_fixed) ==
    AddFixedSteps(kwargs_model, kwargs_fixed,
                  NamedSteps([i \in 1..Len(add_fixed) |-> WithValues(add_fixed[i])]))

\* the names of the remove entries [i_model, fix_names], in order: model, name
RECURSIVE RemoveSteps(_)
RemoveSteps(entries) ==
    IF entries = <<>> THEN <<>>
    ELSE LET e == Head(entries)
         IN [j \in 1..Len(e[2]) |-> <<e[1], e[2][j]>>] \o RemoveSteps(Tail(entries))

\* if param_name in kwargs_fixed[i_model]: del kwargs_fixed[i_model][param_name]
RECURSIVE RemoveFixedSteps(_, _)
RemoveFixedSteps(kwargs_fixed, todo) ==
    IF todo = <<>> THEN [error |-> "none", fixed |-> kwargs_fixed]
    ELSE LET i_model == Head(todo)[1]
             param_name == Head(todo)[2]
         IN IF i_model + 1 > Len(kwargs_fixed)
            THEN [error |-> "IndexError", fixed |-> kwargs_fixed]
            ELSE RemoveFixedSteps([kwargs_fixed EXCEPT ![i_model + 1] = Del(@, param_name)],
                                  Tail(todo))

\* _remove_fixed(kwargs_fixed, remove_fixed)
RemoveFixed(kwargs_fixed, remove_fixed) ==
    RemoveFixedSteps(kwargs_fixed, RemoveSteps(remove_fixed))

\* for param_name in special_add_fixed: a name already fixed is passed over,
\* another is fixed at special_temp[param_name]
RECURSIVE SpecialAddFixed(_, _, _)
SpecialAddFixed(special_temp, special_fixed, special_add_fixed) ==
    IF special_add_fixed = <<>> THEN [error |-> "none", fixed |-> special_fixed]
    ELSE LET param_name == Head(special_add_fixed)
         IN IF param_name \in DOMAIN special_fixed
            THEN SpecialAddFixed(special_temp, special_fixed, Tail(special_add_fixed))
            ELSE IF special_temp.none
            THEN [error |-> "TypeError", fixed |-> special_fixed]
            ELSE IF param_name \notin DOMAIN special_temp.val
            THEN [error |-> "KeyError", fixed |-> special_fixed]
            ELSE SpecialAddFixed(special_temp,
                                 Put(special_fixed, param_name, special_temp.val[param_name]),
                                 Tail(special_add_fixed))

\* for param_name in special_remove_fixed: del special_fixed[param_name] if there
RECURSIVE SpecialRemoveFixed(_, _)
SpecialRemoveFixed(special_fixed, special_remove_fixed) ==
    IF special_remove_fixed = <<>> THEN special_fixed
    ELSE SpecialRemoveFixed(Del(special_fixed, Head(special_remove_fixed)),
                            Tail(special_remove_fixed))

\* lens_fixed = self._add_fixed(self._kwargs_temp['kwargs_lens'], self._lens_fixed, lens_add_fixed)
\* lens_fixed = self._remove_fixed(lens_fixed, lens_remove_fixed)
\* and the same for source, lens_light and ps: the list changed is the
\* attribute's own, so what is done before an exception stays done
UpdateFixedType(r, type, add_fixed, remove_fixed) ==
    IF r.error # "none" THEN r
    ELSE LET added == AddFixed(ParameterState(r.m)[KeyOfType[type]], r.m.fixed[type], add_fixed)
             removed == IF added.error # "none" THEN added
                        ELSE RemoveFixed(added.fixed, remove_fixed)
         IN [error |-> removed.error, m |-> [r.m EXCEPT !.fixed[type] = removed.fixed]]

\* update_fixed(lens_add_fixed=[], ..., special_remove_fixed=[])
UpdateFixed(m, a) ==
    LET r1 == UpdateFixedType([error |-> "none", m |-> m], "lens",
                              a.lens_add_fixed, a.lens_remove_fixed)
        r2 == UpdateFixedType(r1, "source", a.source_add_fixed, a.source_remove_fixed)
        r3 == UpdateFixedType(r2, "lens_light",
                              a.lens_light_add_fixed, a.lens_light_remove_fixed)
        r4 == UpdateFixedType(r3, "ps", a.ps_add_fixed, a.ps_remove_fixed)
        sp == SpecialAddFixed(ParameterState(r4.m)["kwargs_special"], r4.m.fixed.special,
                              a.special_add_fixed)
    IN IF r4.error # "none" THEN r4
       ELSE IF sp.error # "none" THEN [error |-> sp.error, m |-> r4.m]
       ELSE [error |-> "none",
             m |-> [r4.m EXCEPT !.fixed.special =
                       SpecialRemoveFixed(sp.fixed, a.special_remove_fixed)]]

(* ----------------------- UpdateManager: the calls ---------------------- *)
\* the number of calls made on one manager
MaxCalls == 3

\* a full parameter state a caller saves, e.g. the result of a fitting step
NewState ==
    [kwargs_lens |-> Some(<<[theta_E |-> "1.5", center_x |-> "0.1"]>>),
     kwargs_source |-> Some(<<[amp |-> "1.1", R_sersic |-> "0.6"], [amp |-> "2.2", R_sersic |-> "0.4"]>>),
     kwargs_lens_light |-> Some(<<[amp |-> "3.3"]>>),
     kwargs_ps |-> Some(<<[ra_image |-> "0.2"]>>),
     kwargs_special |-> Some([delta_x |-> "0.05", delta_y |-> "0.25"]),
     kwargs_extinction |-> Some(<<>>)]

\* update_param_state: all six arguments, the lens alone, all but the
\* special ones, none
UpdateParamStateArgs ==
    {NewState,
     [k \in StateKeys |-> IF k = "kwargs_lens" THEN NewState[k] ELSE NoneObj],
     [k \in StateKeys |-> IF k = "kwargs_special" THEN NoneObj ELSE NewState[k]],
     [k \in StateKeys |-> NoneObj]}

\* update_param_value: items [index, keys, values]
NoItems == [lens |-> <<>>, source |-> <<>>, lens_light |-> <<>>, ps |-> <<>>]
UpdateParamValueArgs ==
    {[NoItems EXCEPT !.lens = << <<0, <<"theta_E">>, <<"1.7">>>> >>],
     [NoItems EXCEPT !.source = << <<1, <<"amp", "R_sersic">>, <<"2.5", "0.45">>>> >>],
     [NoItems EXCEPT !.lens_light = << <<0, <<"amp">>, <<"3.5">>>> >>,
                     !.ps = << <<0, <<"ra_image">>, <<"0.3">>>> >>],
     [NoItems EXCEPT !.lens = << <<0, <<"theta_E", "center_x">>, <<"1.9">>>> >>]}

\* update_fixed: add entries [i_model, fix_names] or [i_model, fix_names,
\* values], remove entries [i_model, fix_names], lists of special names
NoFixedArgs ==
    [lens_add_fixed |-> <<>>, source_add_fixed |-> <<>>, lens_light_add_fixed |-> <<>>,
     ps_add_fixed |-> <<>>, special_add_fixed |-> <<>>,
     lens_remove_fixed |-> <<>>, source_remove_fixed |-> <<>>,
     lens_light_remove_fixed |-> <<>>, ps_remove_fixed |-> <<>>,
     special_remove_fixed |-> <<>>]
UpdateFixedArgs ==
    {[NoFixedArgs EXCEPT !.lens_add_fixed = << <<0, <<"theta_E">>>> >>],
     [NoFixedArgs EXCEPT !.lens_add_fixed = << <<0, <<"theta_E", "center_x">>, <<None, "0.2">>>> >>],
     [NoFixedArgs EXCEPT !.source_add_fixed = << <<0, <<"R_sersic">>>>, <<1, <<"amp">>, <<"4.0">>>> >>],
     [NoFixedArgs EXCEPT !.lens_add_fixed = << <<0, <<"theta_E">>, <<"1.3">>>> >>,
                         !.lens_remove_fixed = << <<0, <<"theta_E", "center_x">>>> >>],
     [NoFixedArgs EXCEPT !.special_add_fixed = <<"delta_x", "delta_y">>],
     [NoFixedArgs EXCEPT !.special_add_fixed = <<"delta_x">>,
                         !.special_remove_fixed = <<"delta_x">>],
     [NoFixedArgs EXCEPT !.lens_light_add_fixed = << <<0, <<"amp">>>> >>,
                         !.ps_add_fixed = << <<0, <<"ra_image">>, <<"0.3">>>> >>],
     [NoFixedArgs EXCEPT !.source_remove_fixed = << <<1, <<"amp">>>> >>,
                         !.special_remove_fixed = <<"delta_y">>]}

\* update_limits: entries [i_model, names, values], or None
UpdateLimitsArgs ==
    [change_source_lower_limit :
        {NoneObj,
         Some(<< <<1, <<"amp">>, <<"0.5">>>> >>),
         Some(<< <<0, <<"R_sersic">>, <<"0.01">>>>,
                 <<1, <<"amp", "R_sersic">>, <<"0.2", "0.02">>>> >>)},
     change_source_upper_limit :
        {NoneObj, Some(<< <<0, <<"amp">>, <<"50">>>> >>)}]

\* update_options: a changed key, added keys, several dictionaries at once
UpdateOptionsArgs ==
    {[kwargs_model |-> [lens_model_list |-> <<"SIE">>],
      kwargs_constraints |-> EmptyDict, kwargs_likelihood |-> EmptyDict],
     [kwargs_model |-> [z_source |-> "1.5"],
      kwargs_constraints |-> [num_point_source_list |-> "2"],
      kwargs_likelihood |-> EmptyDict],
     [kwargs_model |-> EmptyDict,
      kwargs_constraints |-> [joint_source_with_source |-> "0-1"],
      kwargs_likelihood |-> [check_bounds |-> "False", sort_images |-> "True"]]}

\* the record of a call: its name and arguments, the manager before it, the
\* exception raised, the value returned, the objects held before
Called(op, a, error, returned, held) ==
    [op |-> op, a |-> a, before |-> um, error |-> error, returned |-> returned,
     held |-> held, n |-> umret.n + 1]

InitUpdateManager ==
    /\ phase = "new"
    /\ args = NoArguments
    /\ self = NoSelf
    /\ ret = NoReturn
    /\ built = NoSelf
    /\ calls = NoCalls
    /\ supplied = [kwargs_model |-> KwargsModel, kwargs_constraints |-> KwargsConstraints,
                   kwargs_likelihood |-> KwargsLikelihood, kwargs_params |-> KwargsParams]
    /\ um = UpdateManagerInit(KwargsModel, KwargsConstraints, KwargsLikelihood, KwargsParams)
    /\ umret = [op |-> "__init__", a |-> NoneObj, before |-> NoManager, error |-> "none",
                returned |-> NoneObj, held |-> NoneObj, n |-> 0]

numerics == <<phase, args, self, built, ret, calls>>

CallSetInitState ==
    /\ umret.n < MaxCalls
    /\ um' = SetInitState(um)
    /\ umret' = Called("set_init_state", NoneObj, "none", NoneObj, NoneObj)
    /\ UNCHANGED <<numerics, supplied>>

CallUpdateParamState ==
    /\ umret.n < MaxCalls
    /\ \E a \in UpdateParamStateArgs :
          /\ um' = UpdateParamState(um, a)
          /\ umret' = Called("update_param_state", a, "none", NoneObj, NoneObj)
    /\ UNCHANGED <<numerics, supplied>>

CallUpdateParamValue ==
    /\ umret.n < MaxCalls
    /\ \E a \in UpdateParamValueArgs :
          LET r == UpdateParamValue(um, a)
          IN /\ um' = r.m
             /\ umret' = Called("update_param_value", a, r.error, NoneObj, NoneObj)
    /\ UNCHANGED <<numerics, supplied>>

CallUpdateFixed ==
    /\ umret.n < MaxCalls
    /\ \E a \in UpdateFixedArgs :
          LET r == UpdateFixed(um, a)
          IN /\ um' = r.m
             /\ umret' = Called("update_fixed", a, r.error, NoneObj, NoneObj)
    /\ UNCHANGED <<numerics, supplied>>

CallUpdateLimits ==
    /\ umret.n < MaxCalls
    /\ \E a \in UpdateLimitsArgs :
          LET r == UpdateLimits(um, a)
          IN /\ um' = r.m
             /\ umret' = Called("update_limits", a, r.error, NoneObj,
                                [lower |-> r.held_lower, upper |-> r.held_upper])
    /\ UNCHANGED <<numerics, supplied>>

CallUpdateOptions ==
    /\ umret.n < MaxCalls
    /\ \E a \in UpdateOptionsArgs :
          LET r == UpdateOptions(um, a)
          IN /\ um' = r.m
             /\ umret' = Called("update_options", a, "none", r.returned, NoneObj)
    /\ UNCHANGED <<numerics, supplied>>

ReadParamClass ==
    /\ umret.n < MaxCalls
    /\ umret' = Called("param_class", NoneObj, "none", ParamClass(um), NoneObj)
    /\ UNCHANGED <<um, numerics, supplied>>

NextUpdateManager ==
    \/ CallSetInitState
    \/ CallUpdateParamState
    \/ CallUpdateParamValue
    \/ CallUpdateFixed
    \/ CallUpdateLimits
    \/ CallUpdateOptions
    \/ ReadParamClass

SpecUpdateManager == InitUpdateManager /\ [][NextUpdateManager]_vars

(* ------------------------------ properties ---------------------------- *)
ValidPsfTypes == {"NONE", "GAUSSIAN", "PIXEL"}
Constructed == phase = "built"
Rendered == phase = "built" /\ ret.op = "re_size_convolve"
PixelArea == args.pixel_grid.pixel_width * args.pixel_grid.pixel_width

\* the low-resolution image the grid set at construction reassembles
ReassembledLowRes(flux_array) == FluxArray2ImageLowHigh(built.grid, flux_array).low

\* C1: with supersampling_factor = 1 the convolution built is the one for
\* supersampling_convolution = False, whatever the caller passed: for PIXEL the
\* pixel-kernel convolution with the native kernel (in every compute mode),
\* for GAUSSIAN a Gaussian convolution handed the flag False.
C1_FactorOneForcesConvolutionOff ==
    (Constructed /\ args.supersampling_factor = 1) =>
        /\ self.psf_type = "PIXEL" =>
              self.conv = PixelKernelConvolution(args.psf.kernel_point_source, "fft")
        /\ self.psf_type = "GAUSSIAN" =>
              /\ self.conv.kind = "MultiGaussian"
              /\ self.conv.supersampling_convolution = FALSE

C1_Witness ==
    /\ Constructed
    /\ args.supersampling_factor = 1
    /\ args.supersampling_convolution = TRUE
    /\ args.compute_mode = "adaptive"
    /\ self.psf_type = "PIXEL"
    /\ self.conv.kind = "PixelKernel"

\* C2: the convolution built is the one the selection table names for the PSF
\* kind, the compute mode and the normalised supersampling_convolution; the
\* grid is Adaptive exactly when compute_mode is 'adaptive', so an Adaptive
\* convolution comes with an Adaptive grid and a Subgrid one with a Regular grid.
C2_SelectionTable ==
    Constructed =>
        LET supersampled == args.supersampling_factor # 1 /\ args.supersampling_convolution
            kind == self.conv.kind
        IN /\ (args.psf.psf_type = "PIXEL" /\ ~supersampled) => kind = "PixelKernel"
           /\ (args.psf.psf_type = "PIXEL" /\ supersampled
                 /\ args.compute_mode = "regular") => kind = "Subgrid"
           /\ (args.psf.psf_type = "PIXEL" /\ supersampled
                 /\ args.compute_mode = "adaptive") => kind = "Adaptive"
           /\ args.psf.psf_type = "GAUSSIAN" => kind = "MultiGaussian"
           /\ args.psf.psf_type = "NONE" => kind = "None"
           /\ (self.grid.kind = "Adaptive") <=> (args.compute_mode = "adaptive")
           /\ self.grid.kind \in {"Regular", "Adaptive"}
           /\ kind = "Adaptive" => self.grid.kind = "Adaptive"
           /\ kind = "Subgrid" => self.grid.kind = "Regular"

C2_Witness ==
    /\ Constructed
    /\ self.conv.kind = "Adaptive"
    /\ self.grid.kind = "Adaptive"
    /\ self.grid.supersampled # {}

\* C3: a PSF kind other than NONE, GAUSSIAN and PIXEL makes the constructor
\* fail with an invalid-configuration error for every combination of the other
\* arguments, and the point-source renderer is never initialised; with one of
\* the three kinds the psf_type error is never raised.
C3_InvalidPsfTypeFails ==
    phase # "new" =>
        /\ args.psf.psf_type \notin ValidPsfTypes =>
              /\ phase = "failed"
              /\ ret.op = "__init__"
              /\ ret.error \in {"InvalidConfiguration: psf_type",
                                "InvalidConfiguration: mask shape"}
              /\ (ret.error = "InvalidConfiguration: mask shape" =>
                    \E m \in {args.flux_evaluate_indexes, args.supersampled_indexes} :
                        ~m.none /\ ~ShapeOk(m, Nx, Ny))
              /\ self.point_source = FALSE
        /\ (args.psf.psf_type \in ValidPsfTypes /\ phase = "failed") =>
              ret.error # "InvalidConfiguration: psf_type"

C3_Witness ==
    /\ phase = "failed"
    /\ args.psf.psf_type \notin ValidPsfTypes
    /\ args.compute_mode = "adaptive"
    /\ args.supersampling_convolution = TRUE
    /\ ret.error = "InvalidConfiguration: psf_type"
    /\ self.grid.kind = "Adaptive"
    /\ self.point_source = FALSE

\* C4: re_size_convolve(flux, unconvolved=True) returns the low-resolution
\* image the grid reassembles times pixel_width squared, for every PSF kind and
\* compute mode, and does not call the convolution.
C4_UnconvolvedIsScaledLowRes ==
    (Rendered /\ ret.unconvolved = TRUE) =>
        /\ ~ret.conv_invoked
        /\ Len(ret.flux_array) = Len(GridCoordinates(built.grid)) =>
              /\ ret.error = "none"
              /\ DOMAIN ret.image = Pixels(Nx, Ny)
              /\ \A p \in Pixels(Nx, Ny) :
                    ret.image[p] = ReassembledLowRes(ret.flux_array)[p] * PixelArea

C4_Witness ==
    /\ Rendered
    /\ ret.unconvolved = TRUE
    /\ ret.error = "none"
    /\ self.psf_type = "PIXEL"
    /\ self.conv.kind = "Adaptive"
    /\ \E p \in Pixels(Nx, Ny) : ret.image[p] > 0

\* C5: with PSF kind NONE re_size_convolve returns the same image for
\* unconvolved False and True, the reassembled low-resolution image times
\* pixel_width squared; a flux array of ones with supersampling factor 1 (and
\* no flux_evaluate mask) gives the constant image pixel_width squared.
C5_NoneIgnoresUnconvolved ==
    (Rendered /\ self.psf_type = "NONE"
       /\ Len(ret.flux_array) = Len(GridCoordinates(built.grid))) =>
        /\ ret.error = "none"
        /\ ~ret.conv_invoked
        /\ \A p \in Pixels(Nx, Ny) :
              ret.image[p] = ReassembledLowRes(ret.flux_array)[p] * PixelArea
        /\ \A u \in BOOLEAN : ReSizeConvolve(self, ret.flux_array, u).image = ret.image
        /\ (/\ args.supersampling_factor = 1
            /\ args.flux_evaluate_indexes.none
            /\ \A k \in 1..Len(ret.flux_array) : ret.flux_array[k] = 1) =>
              \A p \in Pixels(Nx, Ny) : ret.image[p] = PixelArea

C5_Witness ==
    /\ Rendered
    /\ self.psf_type = "NONE"
    /\ ret.unconvolved = FALSE
    /\ ret.error = "none"
    /\ args.supersampling_factor = 1
    /\ args.flux_evaluate_indexes.none
    /\ \A k \in 1..Len(ret.flux_array) : ret.flux_array[k] = 1
    /\ \A p \in Pixels(Nx, Ny) : ret.image[p] = PixelArea
\* C6: on an engine constructed with compute_mode 'adaptive' and a compute
\* mask, every pixel of the image re_size_convolve returns that the compute
\* mask excludes is zero, whatever the flux array.
C6_ExcludedPixelsAreZero ==
    (/\ Rendered
     /\ args.compute_mode = "adaptive"
     /\ ~args.compute_indexes.none
     /\ ShapeOk(args.compute_indexes, Nx, Ny)
     /\ ret.error = "none") =>
        \A p \in Pixels(Nx, Ny) \ args.compute_indexes.on : ret.image[p] = 0

\* C7: re_size_convolve raises ShapeMismatch exactly when the flux array is
\* not as long as coordinates_evaluate; a flux array of that length raises
\* nothing in any configuration, also right after a call that failed, and a
\* failed call leaves the engine as it was.
C7_ShapeMismatchExactly ==
    Rendered =>
        /\ (ret.error = "ShapeMismatch")
              <=> (Len(ret.flux_array) # Len(CoordinatesEvaluate(self)))
        /\ Len(ret.flux_array) = Len(CoordinatesEvaluate(self)) => ret.error = "none"
        /\ ret.error = "none" => DOMAIN ret.image = Pixels(Nx, Ny)
        /\ self = built

C7_Witness ==
    /\ Rendered
    /\ ret.after_failure
    /\ ret.error = "none"
    /\ ret.unconvolved = FALSE
    /\ ret.conv_invoked
    /\ Len(ret.flux_array) = Len(CoordinatesEvaluate(self))

\* C8: a flux_evaluate, supersampled or compute mask whose shape is not
\* (nx, ny) makes the constructor fail with an invalid-configuration error, in
\* every compute mode and for every PSF kind.
C8_WrongMaskShapeFails ==
    (/\ phase # "new"
     /\ \E m \in {args.flux_evaluate_indexes, args.supersampled_indexes,
                  args.compute_indexes} : ~m.none /\ ~ShapeOk(m, Nx, Ny)) =>
        /\ phase = "failed"
        /\ ret.error \in {"InvalidConfiguration: psf_type",
                          "InvalidConfiguration: mask shape"}

\* C9: every read of coordinates_evaluate returns the coordinate sequence of
\* the grid set at construction, so any two reads return the same sequence, in
\* the same order and of the same length, whatever calls came between them.
C9_CoordinatesStable ==
    (phase = "built" /\ ret.op = "coordinates_evaluate") =>
        /\ ret.value = GridCoordinates(built.grid)
        /\ built.grid = NumericsInit(args).self.grid

C9_Witness ==
    /\ phase = "built"
    /\ ret.op = "coordinates_evaluate"
    /\ ret.after_render
    /\ self.grid.kind = "Adaptive"
    /\ self.grid.supersampled # {}
    /\ args.supersampling_factor > 1
    /\ Len(ret.value) > Nx * Ny

\* C10: after any sequence of re_size_convolve calls and coordinates_evaluate
\* reads the grid, the convolution, the PSF kind and the pixel width are those
\* set at construction, and a call with unconvolved=False applies the
\* convolution set at construction, also after calls with unconvolved=True.
C10_ConfigurationFixed ==
    Constructed =>
        /\ built = NumericsInit(args).self
        /\ self.grid = built.grid
        /\ self.conv = built.conv
        /\ self.psf_type = built.psf_type
        /\ self.pixel_width = built.pixel_width
        /\ (/\ ret.op = "re_size_convolve"
            /\ ret.unconvolved = FALSE
            /\ ret.error = "none"
            /\ built.psf_type # "NONE") =>
              LET g == FluxArray2ImageLowHigh(built.grid, ret.flux_array)
              IN /\ ret.conv_invoked
                 /\ ret.image = Scale(ConvReSizeConvolve(built.conv, g.low, g.high,
                                                         Nx, Ny).image,
                                      built.pixel_width)

C10_Witness ==
    /\ Rendered
    /\ ret.unconvolved = TRUE
    /\ ret.error = "none"
    /\ self.conv.kind = "Subgrid"
    /\ self.grid.kind = "Regular"
    /\ self = built

\* C11: two re_size_convolve calls on one engine, each with its own flux array
\* and unconvolved flag, end under every interleaving of their lines as each
\* ends when it runs alone (same image, same error), and no line changes the
\* engine.
C11_InterleavedCallsAsAlone ==
    /\ self = built
    /\ \A t \in DOMAIN calls :
          ~Running(calls[t]) =>
              LET alone == ReSizeConvolve(built, calls[t].flux_array, calls[t].unconvolved)
              IN /\ calls[t].error = alone.error
                 /\ calls[t].image = alone.image
                 /\ (calls[t].pc = "returned") <=> (alone.error = "none")

C11_Witness ==
    /\ DOMAIN calls = Threads
    /\ \A t \in Threads : calls[t].pc = "returned" /\ calls[t].overlapped
    /\ calls[1].unconvolved = TRUE
    /\ calls[2].unconvolved = FALSE
    /\ calls[1].flux_array # calls[2].flux_array
    /\ self.conv.kind = "Adaptive"
    /\ calls[1].image # calls[2].image

\* a successful convolved render on a regular-mode engine with supersampling
\* factor 1 and a PIXEL PSF, of a flux array with one sample per pixel
C12_Case ==
    /\ Rendered
    /\ args.compute_mode = "regular"
    /\ args.supersampling_factor = 1
    /\ args.psf.psf_type = "PIXEL"
    /\ ret.unconvolved = FALSE
    /\ Len(ret.flux_array) = Nx * Ny

\* the flux array reshaped to (nx, ny), row after row
Reshaped(flux_array) == [p \in Pixels(Nx, Ny) |-> flux_array[(p[1] - 1) * Ny + p[2]]]

\* the reshaped flux array with the pixels flux_evaluate_indexes excludes at zero
ReshapedEvaluated(flux_array) ==
    [p \in Pixels(Nx, Ny) |->
        IF args.flux_evaluate_indexes.none \/ p \in args.flux_evaluate_indexes.on
        THEN Reshaped(flux_array)[p] ELSE 0]

\* the image convolved with the native kernel psf.kernel_point_source, times
\* pixel_width squared, once
NativeConvolutionTimesArea(image) ==
    [p \in Pixels(Nx, Ny) |->
        Convolve(image, Nx, Ny, args.psf.kernel_point_source)[p] * PixelArea]

\* C12 as stated: in regular mode with supersampling factor 1 and a PIXEL PSF,
\* whatever supersampling_convolution was passed, re_size_convolve(flux) with
\* unconvolved = False is the flux array reshaped to (nx, ny), convolved with
\* the native kernel and multiplied once by pixel_width squared.
C12_NativeConvolutionOfReshapedFlux ==
    C12_Case =>
        /\ ret.error = "none"
        /\ ret.image = NativeConvolutionTimesArea(Reshaped(ret.flux_array))

\* C12 amended: the same, of the reshaped flux array in which the pixels that
\* flux_evaluate_indexes excludes are zero.
C12_NativeConvolutionOfEvaluatedFlux ==
    C12_Case =>
        /\ ret.error = "none"
        /\ ret.image = NativeConvolutionTimesArea(ReshapedEvaluated(ret.flux_array))

C12_Witness ==
    /\ C12_Case
    /\ args.supersampling_convolution = TRUE
    /\ ~args.flux_evaluate_indexes.none
    /\ ret.flux_array[1] # 0
    /\ ret.image = NativeConvolutionTimesArea(ReshapedEvaluated(ret.flux_array))
    /\ ret.image # NativeConvolutionTimesArea(Reshaped(ret.flux_array))
    /\ ret.image # Scale(ReassembledLowRes(ret.flux_array), args.pixel_grid.pixel_width)

(* -------------------- UpdateManager: the properties -------------------- *)
\* the manager as the constructor leaves it when given the supplied arguments
AsConstructed ==
    UpdateManagerInit(supplied.kwargs_model, supplied.kwargs_constraints,
                      supplied.kwargs_likelihood, supplied.kwargs_params)

UmCalled(op) == umret.op = op /\ umret.error = "none"

\* C13: whatever calls were made before, after set_init_state the parameter
\* state equals, value for value, the initial parameters supplied at
\* construction.
C13_SetInitStateRestoresSupplied ==
    UmCalled("set_init_state") =>
        ParameterState(um) = [k \in StateKeys |-> Some(AsConstructed.init[TypeOfKey[k]])]

\* C14: after update_param_state the parameter state holds exactly the six
\* arguments of the call under their keys, None for an omitted one, no entry
\* is one of the initial lists, and the initial, sigma, fixed, lower and upper
\* parameters and the three option dictionaries are as before the call.
C14_UpdateParamStateReplaces ==
    UmCalled("update_param_state") =>
        /\ ParameterState(um) = [k \in StateKeys |-> umret.a[k]]
        /\ \A k \in StateKeys : um.temp[k].ref # "init"
        /\ um.init = umret.before.init
        /\ um.sigma = umret.before.sigma
        /\ um.fixed = umret.before.fixed
        /\ um.lower = umret.before.lower
        /\ um.upper = umret.before.upper
        /\ um.kwargs_model = umret.before.kwargs_model
        /\ um.kwargs_constraints = umret.before.kwargs_constraints
        /\ um.kwargs_likelihood = umret.before.kwargs_likelihood

C14_Witness ==
    /\ UmCalled("update_param_state")
    /\ ~umret.a["kwargs_lens"].none
    /\ umret.a["kwargs_source"].none
    /\ umret.before.temp["kwargs_source"].ref = "arg"
    /\ ParameterState(um)["kwargs_source"] = NoneObj
    /\ umret.before.fixed # AsConstructed.fixed

\* the add and remove lists of an update_fixed call, by model type
AddFixedOf(a) ==
    [lens |-> a.lens_add_fixed, source |-> a.source_add_fixed,
     lens_light |-> a.lens_light_add_fixed, ps |-> a.ps_add_fixed]
RemoveFixedOf(a) ==
    [lens |-> a.lens_remove_fixed, source |-> a.source_remove_fixed,
     lens_light |-> a.lens_light_remove_fixed, ps |-> a.ps_remove_fixed]

\* the call's remove list names param_name for model i_model
Removes(remove_fixed, i_model, param_name) ==
    \E e \in 1..Len(remove_fixed) :
        /\ remove_fixed[e][1] = i_model
        /\ \E j \in 1..Len(remove_fixed[e][2]) : remove_fixed[e][2][j] = param_name

\* the value the j-th name of an add entry is to be fixed at: the value given,
\* or the parameter's value in the parameter state when none is given or the
\* one given is None
FixedAt(entry, j, state) ==
    IF Len(entry) > 2 /\ entry[3][j] # None THEN entry[3][j]
    ELSE state.val[entry[1] + 1][entry[2][j]]

\* for lens, source, lens_light and ps: every name of an add entry that the
\* call does not also remove is fixed afterwards, at the value of FixedAt
ListTypesFixedAsAdded ==
    \A t \in {ListTypes[n] : n \in 1..Len(ListTypes)} :
        LET add_fixed == AddFixedOf(umret.a)[t]
            state == ParameterState(umret.before)[KeyOfType[t]]
        IN \A e \in 1..Len(add_fixed) : \A j \in 1..Len(add_fixed[e][2]) :
              LET i_model == add_fixed[e][1]
                  param_name == add_fixed[e][2][j]
              IN ~Removes(RemoveFixedOf(umret.a)[t], i_model, param_name) =>
                    /\ param_name \in DOMAIN um.fixed[t][i_model + 1]
                    /\ um.fixed[t][i_model + 1][param_name] = FixedAt(add_fixed[e], j, state)

\* the special name is fixed afterwards at its value in the parameter state
SpecialFixedAtState(param_name) ==
    /\ param_name \in DOMAIN um.fixed.special
    /\ um.fixed.special[param_name]
          = ParameterState(umret.before)["kwargs_special"].val[param_name]

\* C15 as stated: after update_fixed every name added for lens, source,
\* lens_light and ps is fixed (unless the call also removes it) at the value
\* given, or at its parameter-state value when none or None is given; every
\* special name added that was not yet fixed is fixed at its parameter-state
\* value.
C15_AddedAreFixed ==
    UmCalled("update_fixed") =>
        /\ ListTypesFixedAsAdded
        /\ \A k \in 1..Len(umret.a.special_add_fixed) :
              LET param_name == umret.a.special_add_fixed[k]
              IN param_name \notin DOMAIN umret.before.fixed.special
                    => SpecialFixedAtState(param_name)

\* C15 amended: the same, where a special name that the call also removes
\* need not be fixed afterwards.
C15_AddedAreFixedUnlessRemoved ==
    UmCalled("update_fixed") =>
        /\ ListTypesFixedAsAdded
        /\ \A k \in 1..Len(umret.a.special_add_fixed) :
              LET param_name == umret.a.special_add_fixed[k]
              IN /\ param_name \notin DOMAIN umret.before.fixed.special
                 /\ \A r \in 1..Len(umret.a.special_remove_fixed) :
                       umret.a.special_remove_fixed[r] # param_name
                 => SpecialFixedAtState(param_name)

C15_Witness ==
    /\ UmCalled("update_fixed")
    /\ umret.a.lens_add_fixed = << <<0, <<"theta_E", "center_x">>, <<None, "0.2">>>> >>
    /\ umret.before.temp["kwargs_lens"].ref = "arg"
    /\ um.fixed.lens[1]["theta_E"] = NewState["kwargs_lens"].val[1]["theta_E"]
    /\ um.fixed.lens[1]["center_x"] = "0.2"
    /\ "center_x" \in DOMAIN umret.before.fixed.lens[1]
    /\ umret.before.fixed.lens[1]["center_x"] # "0.2"
    /\ "delta_x" \in DOMAIN umret.before.fixed.special

\* C16: the Param instance param_class returns is built from the model and
\* constraint options, the fixed parameters, the lower and upper limits and
\* the lens parameters of the parameter state as they are when it is called,
\* whatever updates came before; the call changes none of them.
C16_ParamClassIsCurrent ==
    UmCalled("param_class") =>
        /\ umret.returned.kwargs_model = um.kwargs_model
        /\ umret.returned.kwargs_constraints = um.kwargs_constraints
        /\ umret.returned.kwargs_fixed = um.fixed
        /\ umret.returned.kwargs_lower = um.lower
        /\ umret.returned.kwargs_upper = um.upper
        /\ umret.returned.kwargs_lens_init = ParameterState(um)["kwargs_lens"]
        /\ um = umret.before

C16_Witness ==
    /\ UmCalled("param_class")
    /\ um.temp["kwargs_lens"].ref = "arg"
    /\ umret.returned.kwargs_lens_init = NewState["kwargs_lens"]
    /\ umret.returned.kwargs_lens_init # Some(AsConstructed.init.lens)
    /\ umret.returned.kwargs_lower # AsConstructed.lower
    /\ umret.returned.kwargs_fixed = AsConstructed.fixed

\* the entries of a change list name param_name for model i_model
Names(change_limit, i_model, param_name) ==
    \E e \in 1..Len(change_limit) :
        /\ change_limit[e][1] = i_model
        /\ \E j \in 1..Len(change_limit[e][2]) : change_limit[e][2][j] = param_name

\* the limits of one side after a call given change: the named parameters
\* have the given values, every other entry is as before; with None the
\* side is as before
SideChanged(change, limit, limit_before) ==
    IF change.none THEN limit = limit_before
    ELSE /\ Len(limit) = Len(limit_before)
         /\ \A e \in 1..Len(change.val) : \A j \in 1..Len(change.val[e][2]) :
               LET d == limit[change.val[e][1] + 1]
               IN /\ change.val[e][2][j] \in DOMAIN d
                  /\ d[change.val[e][2][j]] = change.val[e][3][j]
         /\ \A i \in 1..Len(limit) :
               \A name \in DOMAIN limit[i] \cup DOMAIN limit_before[i] :
                  ~Names(change.val, i - 1, name) =>
                      /\ name \in DOMAIN limit[i] \cap DOMAIN limit_before[i]
                      /\ limit[i][name] = limit_before[i][name]

\* C17: update_limits gives the named source parameters the given lower
\* (upper) limits; a None argument leaves that side as it was; every other
\* limit entry, the limits of the other model types, the fixed parameters and
\* the parameter state are as before; the lists held before the call are not
\* changed.
C17_UpdateLimitsOnlySource ==
    UmCalled("update_limits") =>
        /\ SideChanged(umret.a.change_source_lower_limit,
                       um.lower.source, umret.before.lower.source)
        /\ SideChanged(umret.a.change_source_upper_limit,
                       um.upper.source, umret.before.upper.source)
        /\ \A t \in DOMAIN um.lower \ {"source"} :
              /\ um.lower[t] = umret.before.lower[t]
              /\ um.upper[t] = umret.before.upper[t]
        /\ um.fixed = umret.before.fixed
        /\ um.temp = umret.before.temp
        /\ um.init = umret.before.init
        /\ umret.held.lower = umret.before.lower.source
        /\ umret.held.upper = umret.before.upper.source

C17_Witness ==
    /\ UmCalled("update_limits")
    /\ ~umret.a.change_source_lower_limit.none
    /\ Len(umret.a.change_source_lower_limit.val) = 2
    /\ umret.a.change_source_upper_limit.none
    /\ umret.before.lower.source # AsConstructed.lower.source
    /\ umret.before.upper.source # AsConstructed.upper.source
    /\ um.lower.source # umret.before.lower.source
    /\ um.upper.source = umret.before.upper.source

\* C18: after update_options every key of a passed dictionary maps to the
\* passed value in the corresponding options, every key not passed keeps its
\* value, and the call returns the three updated option dictionaries.
C18_UpdateOptionsReturnsUpdated ==
    UmCalled("update_options") =>
        /\ \A o \in {"kwargs_model", "kwargs_constraints", "kwargs_likelihood"} :
              /\ \A k \in DOMAIN umret.a[o] :
                    k \in DOMAIN um[o] /\ um[o][k] = umret.a[o][k]
              /\ \A k \in (DOMAIN um[o] \cup DOMAIN umret.before[o]) \ DOMAIN umret.a[o] :
                    /\ k \in DOMAIN um[o] \cap DOMAIN umret.before[o]
                    /\ um[o][k] = umret.before[o][k]
        /\ umret.returned = <<Some(um.kwargs_model), Some(um.kwargs_constraints),
                              Some(um.kwargs_likelihood)>>

====
